---- MODULE Spec2Model ----
(***************************************************************************)
(* Model of enrichmail (src/src/main.rs): the run of main() over an        *)
(* already parsed message.  Strings that are concatenated or inspected by  *)
(* the program are sequences of one-character strings; Option<T> is the    *)
(* empty sequence (None) or a one-element sequence (Some).  The message    *)
(* builder is the ordered record of the assignments made on it; the        *)
(* markdown renderer, the serializer and the IMAP client are external and  *)
(* appear only through the arguments they are called with.                 *)
(***************************************************************************)
EXTENDS Integers, Sequences, FiniteSets, TLC

VARIABLES pc, args, message, eml, hi, ai, append, stored, network, stdout, err

vars == <<pc, args, message, eml, hi, ai, append, stored, network, stdout, err>>

(* ---------------------------------------------------------------------- *)
(* Bounds                                                                  *)
(* ---------------------------------------------------------------------- *)
MaxHeaders == 3
MaxAttachments == 2
MaxIdLen == 3
MaxTextLen == 4

(* ---------------------------------------------------------------------- *)
(* Option and string helpers                                               *)
(* ---------------------------------------------------------------------- *)
None == <<>>
Some(x) == <<x>>

SeqsUpTo(S, n) == UNION {[1..k -> S] : k \in 0..n}

RECURSIVE Concat(_)
Concat(ss) == IF ss = <<>> THEN <<>> ELSE Head(ss) \o Concat(Tail(ss))

(* ---------------------------------------------------------------------- *)
(* Parsed message: header values (mail_parser::HeaderValue)                *)
(* ---------------------------------------------------------------------- *)
Addr(name, address) == [name |-> name, address |-> address]

HvAddress(a)      == [kind |-> "Address", addr |-> a]
HvAddressList(l)  == [kind |-> "AddressList", list |-> l]
HvText(t)         == [kind |-> "Text", text |-> t]
HvTextList(l)     == [kind |-> "TextList", list |-> l]
HvDateTime(ts)    == [kind |-> "DateTime", timestamp |-> ts]
HvContentType(t, st, attrs) ==
    [kind |-> "ContentType", c_type |-> t, c_subtype |-> st, attributes |-> attrs]
HvGroup           == [kind |-> "Group"]
HvGroupList       == [kind |-> "GroupList"]
HvEmpty           == [kind |-> "Empty"]

Header(name, value) == [name |-> name, value |-> value]

(* ---------------------------------------------------------------------- *)
(* Message builder (mail_builder::MessageBuilder) as used by the program   *)
(* ---------------------------------------------------------------------- *)
NewBuilder == [text_body |-> None, html_body |-> None,
               headers |-> <<>>, attachments |-> <<>>]

BuilderTextBody(b, t) == [b EXCEPT !.text_body = Some(t)]
BuilderHtmlBody(b, h) == [b EXCEPT !.html_body = Some(h)]
BuilderHeader(b, name, value) ==
    [b EXCEPT !.headers = Append(@, <<name, value>>)]
BuilderBinaryAttachment(b, ct, fname, body) ==
    [b EXCEPT !.attachments =
        Append(@, [kind |-> "binary", content_type |-> ct,
                   file_name |-> fname, body |-> body])]
BuilderTextAttachment(b, ct, fname, body) ==
    [b EXCEPT !.attachments =
        Append(@, [kind |-> "text", content_type |-> ct,
                   file_name |-> fname, body |-> body])]

(* ---------------------------------------------------------------------- *)
(* Body renderer: text_body, pre_markdown, text_body_as_html               *)
(* ---------------------------------------------------------------------- *)

(* message.body_text(0).unwrap(): the caller checks HasTextBody first,     *)
(* the unwrap panics otherwise.                                            *)
HasTextBody(m) == m.body_text # None
text_body(m) == m.body_text[1]

(* str::lines(): the text is cut after every "\n"; each piece loses its    *)
(* final "\n" and then a "\r" that stood right before that "\n".  A last   *)
(* piece without "\n" is kept as it is (a bare "\r" at the end of the text *)
(* stays, as the standard library documents), an empty rest gives no line. *)
RECURSIVE SplitInclusive(_, _)
SplitInclusive(text, cur) ==
    IF text = <<>> THEN (IF cur = <<>> THEN <<>> ELSE <<cur>>)
    ELSE IF Head(text) = "\n"
         THEN <<Append(cur, "\n")>> \o SplitInclusive(Tail(text), <<>>)
         ELSE SplitInclusive(Tail(text), Append(cur, Head(text)))

StripLineEnding(piece) ==
    LET n == Len(piece) IN
    IF n = 0 \/ piece[n] # "\n" THEN piece
    ELSE IF n >= 2 /\ piece[n - 1] = "\r" THEN SubSeq(piece, 1, n - 2)
         ELSE SubSeq(piece, 1, n - 1)

lines(text) ==
    LET pieces == SplitInclusive(text, <<>>) IN
    [k \in 1..Len(pieces) |-> StripLineEnding(pieces[k])]

(* A pre_markdown that pushes a single space before the line feed.         *)
pre_markdown_OneSpace(text) ==
    LET ls == lines(text) IN
    Concat([k \in 1..Len(ls) |-> ls[k] \o <<" ", "\n">>])

pre_markdown(text) ==
    LET ls == lines(text) IN
    Concat([k \in 1..Len(ls) |-> ls[k] \o <<" ", " ", "\n">>])

(* markdown_to_html and the fixed template are kept symbolic: the document *)
(* is the renderer's input and the appended fragment.                      *)
text_body_as_html(m, app) ==
    [generator   |-> "mutt-html-markdown/0.1",
     markdown    |-> pre_markdown(text_body(m)),
     body_append |-> IF app = None THEN <<>> ELSE app[1]]

(* ---------------------------------------------------------------------- *)
(* Header copier: transform_address and the match of copy_headers          *)
(* ---------------------------------------------------------------------- *)
transform_address(a) ==
    [kind |-> "Address", name |-> a.name, email |-> a.address[1]]

(* The header value makes copy_headers panic: an unwrap of a missing       *)
(* address string, or one of the todo!() arms.                             *)
HeaderPanics(v) ==
    CASE v.kind = "Address"     -> v.addr.address = None
      [] v.kind = "AddressList" -> \E k \in 1..Len(v.list) : v.list[k].address = None
      [] v.kind = "Group"       -> TRUE
      [] v.kind = "GroupList"   -> TRUE
      [] v.kind = "Empty"       -> TRUE
      [] OTHER                  -> FALSE

PanicReason(v) ==
    CASE v.kind = "Group"     -> "not yet implemented: Group not implemented"
      [] v.kind = "GroupList" -> "not yet implemented: Group list not implemented"
      [] v.kind = "Empty"     -> "not yet implemented: Empty not implemented"
      [] OTHER                -> "unwrap on None: address"

Join(list, sep) ==
    Concat([k \in 1..Len(list) |->
              IF k = 1 THEN list[k] ELSE sep \o list[k]])

(* A maybe_header whose ContentType arm copies the header as text.          *)
maybe_header_CopiesContentType(v) ==
    CASE v.kind = "Address" ->
           Some([type |-> "Address", value |-> transform_address(v.addr)])
      [] v.kind = "Text" ->
           Some([type |-> "Text", value |-> v.text])
      [] v.kind = "DateTime" ->
           Some([type |-> "Date", value |-> v.timestamp])
      [] v.kind = "ContentType" ->
           Some([type |-> "Text", value |-> v.c_type])
      [] v.kind = "AddressList" ->
           Some([type |-> "Address",
                 value |-> [kind |-> "List",
                            items |-> [k \in 1..Len(v.list) |->
                                         transform_address(v.list[k])]]])
      [] v.kind = "TextList" ->
           Some([type |-> "Text", value |-> Join(v.list, <<"\t", "\n">>)])

maybe_header(v) ==
    CASE v.kind = "Address" ->
           Some([type |-> "Address", value |-> transform_address(v.addr)])
      [] v.kind = "Text" ->
           Some([type |-> "Text", value |-> v.text])
      [] v.kind = "DateTime" ->
           Some([type |-> "Date", value |-> v.timestamp])
      [] v.kind = "ContentType" -> None
      [] v.kind = "AddressList" ->
           Some([type |-> "Address",
                 value |-> [kind |-> "List",
                            items |-> [k \in 1..Len(v.list) |->
                                         transform_address(v.list[k])]]])
      [] v.kind = "TextList" ->
           Some([type |-> "Text", value |-> Join(v.list, <<"\t", "\n">>)])

(* ---------------------------------------------------------------------- *)
(* Attachment copier: get_file_name, get_content_type                      *)
(* ---------------------------------------------------------------------- *)

(* ContentType::attribute(name): the value of the first attribute of that  *)
(* name, None when there is none.                                          *)
RECURSIVE Attribute(_, _)
Attribute(attrs, name) ==
    IF attrs = <<>> THEN None
    ELSE IF Head(attrs)[1] = name THEN Some(Head(attrs)[2])
         ELSE Attribute(Tail(attrs), name)

RECURSIVE FileNameFold(_, _)
FileNameFold(hs, result) ==
    IF hs = <<>> THEN [panic |-> FALSE, result |-> result]
    ELSE LET h == Head(hs) IN
         IF h.name = "Content-Disposition" /\ h.value.kind = "ContentType"
         THEN LET a == Attribute(h.value.attributes, "filename") IN
              IF a = None THEN [panic |-> TRUE, result |-> result]
              ELSE FileNameFold(Tail(hs), a[1])
         ELSE FileNameFold(Tail(hs), result)

get_file_name(part) == FileNameFold(part.headers, <<>>)

RECURSIVE ContentTypeFold(_, _)
ContentTypeFold(hs, result) ==
    IF hs = <<>> THEN result
    ELSE LET h == Head(hs) IN
         IF h.name = "Content-Type" /\ h.value.kind = "ContentType"
         THEN ContentTypeFold(Tail(hs),
                  result \o h.value.c_type \o
                  (IF h.value.c_subtype = None THEN <<>>
                   ELSE <<"/">> \o h.value.c_subtype[1]))
         ELSE ContentTypeFold(Tail(hs), result)

get_content_type(part) == ContentTypeFold(part.headers, <<>>)

(* ---------------------------------------------------------------------- *)
(* Tracking pixel: base64 (STANDARD_NO_PAD) and get_pixel_element          *)
(* ---------------------------------------------------------------------- *)
Upper == <<"A","B","C","D","E","F","G","H","I","J","K","L","M",
           "N","O","P","Q","R","S","T","U","V","W","X","Y","Z">>
Lower == <<"a","b","c","d","e","f","g","h","i","j","k","l","m",
           "n","o","p","q","r","s","t","u","v","w","x","y","z">>
Digits == <<"0","1","2","3","4","5","6","7","8","9">>

STANDARD == Upper \o Lower \o Digits \o <<"+", "/">>

(* The UTF-8 bytes of the characters identifiers are drawn from.           *)
ByteOf(c) ==
    CASE c = "a" -> 97 [] c = "b" -> 98 [] c = "?" -> 63 [] c = ">" -> 62
      [] c = "~" -> 126 [] c = "@" -> 64 [] c = "<" -> 60

as_bytes(s) == [k \in 1..Len(s) |-> ByteOf(s[k])]

(* Engine::encode without padding: three bytes give four symbols, a rest   *)
(* of one byte two symbols, a rest of two bytes three symbols.             *)
RECURSIVE EncodeNoPad(_, _)
EncodeNoPad(alphabet, bytes) ==
    LET n == Len(bytes) IN
    IF n = 0 THEN <<>>
    ELSE IF n = 1 THEN
        << alphabet[(bytes[1] \div 4) + 1],
           alphabet[((bytes[1] % 4) * 16) + 1] >>
    ELSE IF n = 2 THEN
        << alphabet[(bytes[1] \div 4) + 1],
           alphabet[((bytes[1] % 4) * 16 + (bytes[2] \div 16)) + 1],
           alphabet[((bytes[2] % 16) * 4) + 1] >>
    ELSE
        << alphabet[(bytes[1] \div 4) + 1],
           alphabet[((bytes[1] % 4) * 16 + (bytes[2] \div 16)) + 1],
           alphabet[((bytes[2] % 16) * 4 + (bytes[3] \div 64)) + 1],
           alphabet[(bytes[3] % 64) + 1] >>
        \o EncodeNoPad(alphabet, SubSeq(bytes, 4, n))

ImgOpen == "<img src=\""
ImgClose == "\" alt=\"Open pixel\" style=\"border: 0px; width: 0px; max-width: 1px;\" />"

get_pixel_element(tracking_url, m) ==
    LET encoded_id == EncodeNoPad(STANDARD, as_bytes(m.message_id[1]))
        pixel_url == tracking_url \o <<"/","i","m","a","g","e","/">>
                       \o encoded_id \o <<".","g","i","f">>
    IN <<ImgOpen>> \o pixel_url \o <<ImgClose>>

(* ---------------------------------------------------------------------- *)
(* Command line: u16 parsing of the port                                   *)
(* ---------------------------------------------------------------------- *)
DigitValue(c) ==
    CASE c = "0" -> 0 [] c = "1" -> 1 [] c = "2" -> 2 [] c = "3" -> 3
      [] c = "4" -> 4 [] c = "5" -> 5 [] c = "6" -> 6 [] c = "7" -> 7
      [] c = "8" -> 8 [] c = "9" -> 9 [] OTHER -> -1

RECURSIVE DecimalValue(_, _)
DecimalValue(s, acc) ==
    IF s = <<>> THEN acc
    ELSE DecimalValue(Tail(s), acc * 10 + DigitValue(Head(s)))

(* str::parse::<u16>(): an optional "+", then one or more decimal digits,  *)
(* the value at most 65535; anything else is Err.                          *)
ParseU16(s) ==
    LET body == IF s # <<>> /\ Head(s) = "+" THEN Tail(s) ELSE s IN
    IF body = <<>> \/ \E k \in 1..Len(body) : DigitValue(body[k]) < 0
    THEN [ok |-> FALSE, val |-> 0]
    ELSE IF DecimalValue(body, 0) > 65535 THEN [ok |-> FALSE, val |-> 0]
         ELSE [ok |-> TRUE, val |-> DecimalValue(body, 0)]

(* ---------------------------------------------------------------------- *)
(* Inputs                                                                  *)
(* ---------------------------------------------------------------------- *)
Alice == Addr(Some("Alice"), Some("alice@example.com"))
Bob   == Addr(None, Some("bob@example.com"))
NoAddress == Addr(Some("Nobody"), None)

TextHi  == <<"h", "i">>
TextYo  == <<"y", "o">>
BaseText == <<"a", "\n", "b">>
BaseId   == <<"<", "a", "@", "b", ">">>
BaseUrl  == <<"h", ":", "/", "/", "t">>

(* Top-level header values the parser can hand over.                       *)
SupportedValues ==
    { HvAddress(Alice), HvAddress(Bob),
      HvAddressList(<<Bob, Alice>>), HvAddressList(<<>>),
      HvText(TextHi), HvTextList(<<TextHi, TextYo>>), HvTextList(<<>>),
      HvDateTime(1700000000),
      HvContentType(<<"t">>, Some(<<"p">>), <<>>) }

UnsupportedValues == { HvGroup, HvGroupList, HvEmpty }

MissingAddressValues ==
    { HvAddress(NoAddress), HvAddressList(<<Alice, NoAddress>>) }

(* Attachment parts: the part's own headers and its payload.               *)
PartHeaderSets ==
    { <<>>,
      << Header("Content-Type", HvContentType(<<"t">>, Some(<<"p">>), <<>>)),
         Header("Content-Disposition",
                HvContentType(<<"a">>, None, << <<"filename", <<"n">> >> >>)) >>,
      << Header("Content-Type", HvContentType(<<"i">>, None, <<>>)),
         Header("Content-Disposition",
                HvContentType(<<"a">>, None, << <<"size", <<"1">> >> >>)) >>,
      << Header("Content-Disposition", HvText(<<"a">>)),
         Header("Content-Type", HvContentType(<<"t">>, Some(<<"p">>), <<>>)),
         Header("Content-Type", HvContentType(<<"i">>, Some(<<"g">>), <<>>)) >>,
      << Header("Content-Disposition",
                HvContentType(<<"a">>, None, << <<"filename", <<"n">> >> >>)),
         Header("Content-Disposition",
                HvContentType(<<"a">>, None, << <<"filename", <<"m">> >> >>)) >> }

PartBodies ==
    { [kind |-> "Binary", data |-> <<0, 255>>],
      [kind |-> "Text", data |-> TextHi],
      [kind |-> "InlineBinary", data |-> <<7>>],
      [kind |-> "Message", data |-> <<>>] }

PartPool == { [headers |-> h, body |-> b] : h \in PartHeaderSets, b \in PartBodies }

GoodPart ==
    [headers |-> << Header("Content-Type", HvContentType(<<"t">>, Some(<<"p">>), <<>>)),
                    Header("Content-Disposition",
                           HvContentType(<<"a">>, None, << <<"filename", <<"n">> >> >>)) >>,
     body |-> [kind |-> "Text", data |-> TextHi]]

(* A part whose content-disposition header has no filename attribute.      *)
NoFilenamePart ==
    [headers |-> << Header("Content-Type", HvContentType(<<"i">>, None, <<>>)),
                    Header("Content-Disposition",
                           HvContentType(<<"a">>, None, << <<"size", <<"1">> >> >>)) >>,
     body |-> [kind |-> "Binary", data |-> <<0, 255>>]]

GoodHeaderCycle ==
    << Header("From", HvAddress(Alice)),
       Header("Subject", HvText(TextHi)),
       Header("Date", HvDateTime(1700000000)) >>

GoodHeaders(n) == [k \in 1..n |-> GoodHeaderCycle[((k - 1) % 3) + 1]]

BaseMessage ==
    [headers     |-> GoodHeaders(MaxHeaders),
     body_text   |-> Some(BaseText),
     message_id  |-> Some(BaseId),
     subject     |-> Some(TextHi),
     from        |-> HvAddress(Alice),
     attachments |-> <<GoodPart>>]

(* The messages of the orchestrator runs: every combination of a header    *)
(* sequence (all supported, or one unsupported or address-less header at   *)
(* any place), a text body or none, an identifier or none and no          *)
(* attachment, one, or two with the second lacking a file name; and the    *)
(* base message with another subject or sender.                            *)
MainHeaderSeqs ==
    { GoodHeaders(MaxHeaders) }
    \cup { [GoodHeaders(MaxHeaders) EXCEPT ![p] = Header("To", v)] :
              p \in 1..MaxHeaders,
              v \in UnsupportedValues \cup { HvAddress(NoAddress) } }

Messages ==
    { [BaseMessage EXCEPT !.headers = h, !.body_text = b,
                          !.message_id = i, !.attachments = a] :
         h \in MainHeaderSeqs,
         b \in { None, Some(BaseText) },
         i \in { None, Some(BaseId) },
         a \in { <<>>, <<GoodPart>>, <<GoodPart, NoFilenamePart>> } }
    \cup { [BaseMessage EXCEPT !.subject = None],
           [BaseMessage EXCEPT !.from = HvEmpty],
           [BaseMessage EXCEPT !.from = HvAddress(NoAddress)] }

PortStrings == { <<"9", "9", "3">>, <<"7", "0", "0", "0", "0">>, <<"x">> }

OptionOf(S) == { None } \cup { Some(x) : x \in S }

ArgSets ==
    [get_message_id : BOOLEAN, get_subject : BOOLEAN,
     get_from_email : BOOLEAN, html_preview : BOOLEAN,
     generate_html  : BOOLEAN,
     add_pixel      : OptionOf({BaseUrl}),
     put_on_imap    : OptionOf({"Sent"}),
     server         : OptionOf({"imap.example.com"}),
     port           : OptionOf(PortStrings),
     user           : OptionOf({"me"}),
     password       : OptionOf({"secret"})]

DefaultArgs ==
    [get_message_id |-> FALSE, get_subject |-> FALSE,
     get_from_email |-> FALSE, html_preview |-> FALSE,
     generate_html  |-> FALSE, add_pixel |-> None, put_on_imap |-> None,
     server |-> None, port |-> None, user |-> None, password |-> None]

(* ---------------------------------------------------------------------- *)
(* Initial states                                                          *)
(* ---------------------------------------------------------------------- *)
InitRun ==
    /\ pc = "cli"
    /\ eml = NewBuilder
    /\ hi = 0
    /\ ai = 0
    /\ append = None
    /\ stored = <<>>
    /\ network = FALSE
    /\ stdout = <<>>
    /\ err = ""

Init ==
    /\ args \in ArgSets
    /\ message \in Messages
    /\ InitRun

(* ---------------------------------------------------------------------- *)
(* Actions of main()                                                       *)
(* ---------------------------------------------------------------------- *)
Panic(reason) ==
    /\ pc' = "panicked"
    /\ err' = reason

(* cli().get_matches(): clap rejects a command line that breaks a          *)
(* `requires` of an argument; it reports the usage error and exits.        *)
(* A command line definition whose put-on-imap lost its `requires`.        *)
ClapAccepts_NoImapRequires(a) ==
    a.add_pixel # None => a.generate_html

ClapAccepts(a) ==
    /\ a.add_pixel # None => a.generate_html
    /\ a.put_on_imap # None =>
         (a.server # None /\ a.port # None /\ a.user # None /\ a.password # None)

Cli ==
    /\ pc = "cli"
    /\ IF ClapAccepts(args)
       THEN pc' = "main" /\ err' = err
       ELSE pc' = "clap_error"
            /\ err' = "the following required arguments were not provided"
    /\ UNCHANGED <<args, message, eml, hi, ai, append, stored, network, stdout>>

Println(value) == stdout' = Append(stdout, value)

GetMessageId ==
    /\ pc = "main"
    /\ args.get_message_id
    /\ Println([kind |-> "text",
                value |-> IF message.message_id = None THEN <<>>
                          ELSE message.message_id[1]])
    /\ pc' = "done"
    /\ UNCHANGED <<args, message, eml, hi, ai, append, stored, network, err>>

(* A main() that tests get-subject before get-message-id.                  *)
GetSubject_BeforeMessageId ==
    /\ pc = "main"
    /\ args.get_subject
    /\ Println([kind |-> "text",
                value |-> IF message.subject = None THEN <<>>
                          ELSE message.subject[1]])
    /\ pc' = "done"
    /\ UNCHANGED <<args, message, eml, hi, ai, append, stored, network, err>>

GetSubject ==
    /\ pc = "main"
    /\ ~args.get_message_id
    /\ args.get_subject
    /\ Println([kind |-> "text",
                value |-> IF message.subject = None THEN <<>>
                          ELSE message.subject[1]])
    /\ pc' = "done"
    /\ UNCHANGED <<args, message, eml, hi, ai, append, stored, network, err>>

GetFromEmail ==
    /\ pc = "main"
    /\ ~args.get_message_id
    /\ ~args.get_subject
    /\ args.get_from_email
    /\ Println([kind |-> "text",
                value |-> IF message.from.kind = "Address"
                          THEN (IF message.from.addr.address = None THEN <<>>
                                ELSE message.from.addr.address[1])
                          ELSE <<>>])
    /\ pc' = "done"
    /\ UNCHANGED <<args, message, eml, hi, ai, append, stored, network, err>>

HtmlPreview ==
    /\ pc = "main"
    /\ ~args.get_message_id
    /\ ~args.get_subject
    /\ ~args.get_from_email
    /\ args.html_preview
    /\ IF HasTextBody(message)
       THEN /\ Println([kind |-> "html",
                        value |-> text_body_as_html(message, None)])
            /\ pc' = "done"
            /\ err' = err
       ELSE /\ Panic("unwrap on None: body_text")
            /\ stdout' = stdout
    /\ UNCHANGED <<args, message, eml, hi, ai, append, stored, network>>

NoQueryFlag(a) ==
    /\ ~a.get_message_id
    /\ ~a.get_subject
    /\ ~a.get_from_email
    /\ ~a.html_preview

(* get_builder_from_parser, first statement: the builder with the text     *)
(* body; copy_headers starts.                                              *)
NewTextBody ==
    /\ pc = "main"
    /\ NoQueryFlag(args)
    /\ IF HasTextBody(message)
       THEN /\ eml' = BuilderTextBody(NewBuilder, text_body(message))
            /\ pc' = "copy_headers"
            /\ hi' = 1
            /\ err' = err
       ELSE /\ Panic("unwrap on None: body_text")
            /\ UNCHANGED <<eml, hi>>
    /\ UNCHANGED <<args, message, ai, append, stored, network, stdout>>

(* A copy_headers that skips a header it cannot represent and goes on.     *)
CopyHeader_SkipAndContinue ==
    /\ pc = "copy_headers"
    /\ hi <= Len(message.headers)
    /\ LET header == message.headers[hi] IN
       /\ eml' = IF HeaderPanics(header.value) THEN eml
                 ELSE IF maybe_header(header.value) = None THEN eml
                 ELSE BuilderHeader(eml, header.name,
                                    maybe_header(header.value)[1])
       /\ hi' = hi + 1
       /\ UNCHANGED <<pc, err>>
    /\ UNCHANGED <<args, message, ai, append, stored, network, stdout>>

(* One iteration of the loop of copy_headers.                              *)
CopyHeader ==
    /\ pc = "copy_headers"
    /\ hi <= Len(message.headers)
    /\ LET header == message.headers[hi] IN
       IF HeaderPanics(header.value)
       THEN /\ Panic(PanicReason(header.value))
            /\ UNCHANGED <<eml, hi>>
       ELSE /\ eml' = IF maybe_header(header.value) = None THEN eml
                      ELSE BuilderHeader(eml, header.name,
                                         maybe_header(header.value)[1])
            /\ hi' = hi + 1
            /\ UNCHANGED <<pc, err>>
    /\ UNCHANGED <<args, message, ai, append, stored, network, stdout>>

(* copy_headers returns; copy_attachments starts.                          *)
CopyHeadersReturn ==
    /\ pc = "copy_headers"
    /\ hi > Len(message.headers)
    /\ pc' = "copy_attachments"
    /\ ai' = 1
    /\ UNCHANGED <<args, message, eml, hi, append, stored, network, stdout, err>>

(* One iteration of the loop of copy_attachments.                          *)
CopyAttachment ==
    /\ pc = "copy_attachments"
    /\ ai <= Len(message.attachments)
    /\ LET attachment == message.attachments[ai]
           content_type == get_content_type(attachment)
           file_name == get_file_name(attachment)
       IN
       IF file_name.panic
       THEN /\ Panic("unwrap on None: filename")
            /\ UNCHANGED <<eml, ai>>
       ELSE /\ eml' = CASE attachment.body.kind = "Binary" ->
                             BuilderBinaryAttachment(eml, content_type,
                                 file_name.result, attachment.body.data)
                        [] attachment.body.kind = "Text" ->
                             BuilderTextAttachment(eml, content_type,
                                 file_name.result, attachment.body.data)
                        [] OTHER -> eml
            /\ ai' = ai + 1
            /\ UNCHANGED <<pc, err>>
    /\ UNCHANGED <<args, message, hi, append, stored, network, stdout>>

(* copy_attachments and get_builder_from_parser return.                    *)
CopyAttachmentsReturn ==
    /\ pc = "copy_attachments"
    /\ ai > Len(message.attachments)
    /\ pc' = "put_on_imap"
    /\ UNCHANGED <<args, message, eml, hi, ai, append, stored, network, stdout, err>>

(* handle_put_email_on_imap_server with put_email_on_imap_server: the      *)
(* connection, the login or the append may fail, and then the unwrap       *)
(* panics.                                                                 *)
PortOf(a) == ParseU16(IF a.port = None THEN <<"9", "3", "3">> ELSE a.port[1])

(* A stored copy that is the builder as it stands, without the HTML body.   *)
EmlToStore_NoHtml(b, m, a) == b

(* The clone that is appended to the mailbox: with generate-html it gets   *)
(* the HTML body rendered with nothing appended.                           *)
EmlToStore(b, m, a) ==
    IF a.generate_html
    THEN BuilderHtmlBody(b, text_body_as_html(m, None))
    ELSE b

HandlePutEmailOnImapServer ==
    /\ pc = "put_on_imap"
    /\ IF /\ args.put_on_imap # None /\ args.server # None /\ PortOf(args).ok
          /\ args.user # None /\ args.password # None
       THEN LET eml_to_store == EmlToStore(eml, message, args)
            IN /\ network' = TRUE
               /\ \E appended \in BOOLEAN :
                     IF appended
                     THEN /\ stored' = Append(stored,
                                 [mailbox |-> args.put_on_imap[1],
                                  server  |-> args.server[1],
                                  port    |-> PortOf(args).val,
                                  user    |-> args.user[1],
                                  pass    |-> args.password[1],
                                  flags   |-> {"Seen"},
                                  message |-> eml_to_store])
                          /\ pc' = "add_pixel"
                          /\ err' = err
                     ELSE /\ Panic("imap: connect, login or append failed")
                          /\ stored' = stored
       ELSE IF args.put_on_imap = None
            THEN /\ pc' = "add_pixel"
                 /\ UNCHANGED <<stored, network, err>>
            ELSE /\ Panic("Missing arguments for put-on-imap")
                 /\ UNCHANGED <<stored, network>>
    /\ UNCHANGED <<args, message, eml, hi, ai, append, stdout>>

(* let append = matches.get_one("add-pixel").map(get_pixel_element)        *)
AddPixel ==
    /\ pc = "add_pixel"
    /\ IF args.add_pixel = None
       THEN /\ append' = None
            /\ pc' = "generate_html"
            /\ err' = err
       ELSE IF message.message_id = None
            THEN /\ Panic("unwrap on None: message_id")
                 /\ append' = append
            ELSE /\ append' = Some(get_pixel_element(args.add_pixel[1], message))
                 /\ pc' = "generate_html"
                 /\ err' = err
    /\ UNCHANGED <<args, message, eml, hi, ai, stored, network, stdout>>

GenerateHtml ==
    /\ pc = "generate_html"
    /\ eml' = IF args.generate_html
              THEN BuilderHtmlBody(eml, text_body_as_html(message, append))
              ELSE eml
    /\ pc' = "write"
    /\ UNCHANGED <<args, message, hi, ai, append, stored, network, stdout, err>>

(* println!("{}", eml.write_to_string().unwrap())                          *)
WriteToStdout ==
    /\ pc = "write"
    /\ Println([kind |-> "message", value |-> eml])
    /\ pc' = "done"
    /\ UNCHANGED <<args, message, eml, hi, ai, append, stored, network, err>>

(* get_builder_from_parser *)
NextBuilder ==
    \/ Cli
    \/ NewTextBody
    \/ CopyHeader
    \/ CopyHeadersReturn
    \/ CopyAttachment
    \/ CopyAttachmentsReturn

(* The default reconstruction mode, lines 74-86 of main *)
NextReconstruct ==
    \/ NextBuilder
    \/ HandlePutEmailOnImapServer
    \/ AddPixel
    \/ GenerateHtml
    \/ WriteToStdout

NextRender ==
    \/ HtmlPreview
    \/ NextReconstruct

Next ==
    \/ GetMessageId
    \/ GetSubject
    \/ GetFromEmail
    \/ NextRender

(* Every command line over the messages of the orchestrator runs.          *)
Spec == Init /\ [][Next]_vars

(* The header copier over every header sequence up to MaxHeaders.          *)
HeaderPool ==
    { Header("X-Any", v) : v \in SupportedValues \cup UnsupportedValues
                                    \cup MissingAddressValues }
    \cup { Header("From", HvAddress(Alice)), Header("From", HvText(TextYo)) }

InitHeaders ==
    /\ args = DefaultArgs
    /\ message \in { [BaseMessage EXCEPT !.headers = h] :
                        h \in SeqsUpTo(HeaderPool, MaxHeaders) }
    /\ InitRun

SpecHeaders == InitHeaders /\ [][NextBuilder]_vars

(* The attachment copier over every part sequence up to MaxAttachments.    *)
InitAttachments ==
    /\ args = DefaultArgs
    /\ message \in { [BaseMessage EXCEPT !.attachments = a] :
                        a \in SeqsUpTo(PartPool, MaxAttachments) }
    /\ InitRun

SpecAttachments == InitAttachments /\ [][NextBuilder]_vars

(* The tracking pixel over every identifier up to MaxIdLen characters.     *)
IdChars == { "a", "b", "?", "~" }
Ids == SeqsUpTo(IdChars, MaxIdLen) \ { <<>> }
Urls == { BaseUrl, <<"u">> }

InitPixel ==
    /\ args \in { [DefaultArgs EXCEPT !.generate_html = TRUE,
                                       !.add_pixel = Some(u)] : u \in Urls }
    /\ message \in { [BaseMessage EXCEPT !.message_id = i] : i \in OptionOf(Ids) }
    /\ InitRun

SpecPixel == InitPixel /\ [][NextReconstruct]_vars

(* The body renderer over every text up to MaxTextLen characters.          *)
TextChars == { "a", " ", "\n", "\r" }
Texts == SeqsUpTo(TextChars, MaxTextLen)

InitBody ==
    /\ args \in { [DefaultArgs EXCEPT !.html_preview = TRUE],
                   [DefaultArgs EXCEPT !.generate_html = TRUE] }
    /\ message \in { [BaseMessage EXCEPT !.body_text = b] : b \in OptionOf(Texts) }
    /\ InitRun

SpecBody == InitBody /\ [][NextRender]_vars

(* ---------------------------------------------------------------------- *)
(* Properties                                                              *)
(* ---------------------------------------------------------------------- *)
CopiedKinds == { "Address", "AddressList", "Text", "TextList", "DateTime" }
HeaderIsCopied(h) == h.value.kind \in CopiedKinds

RECURSIVE TabNewlineJoined(_)
TabNewlineJoined(l) ==
    IF l = <<>> THEN <<>>
    ELSE IF Len(l) = 1 THEN l[1]
    ELSE l[1] \o <<"\t", "\n">> \o TabNewlineJoined(Tail(l))

SameAddress(src, out) ==
    /\ out.kind = "Address"
    /\ out.name = src.name
    /\ Some(out.email) = src.address

(* The assignment `out` carries the value of the source header value `v`.  *)
SameValue(v, out) ==
    CASE v.kind = "Address" ->
           out.type = "Address" /\ SameAddress(v.addr, out.value)
      [] v.kind = "AddressList" ->
           /\ out.type = "Address"
           /\ out.value.kind = "List"
           /\ Len(out.value.items) = Len(v.list)
           /\ \A k \in 1..Len(v.list) : SameAddress(v.list[k], out.value.items[k])
      [] v.kind = "Text" ->
           out.type = "Text" /\ out.value = v.text
      [] v.kind = "TextList" ->
           out.type = "Text" /\ out.value = TabNewlineJoined(v.list)
      [] v.kind = "DateTime" ->
           out.type = "Date" /\ out.value = v.timestamp
      [] OTHER -> FALSE

(* C1: the header assignments made so far are the ordered filter-map of    *)
(* the source headers walked so far (all of them once copy_headers has     *)
(* returned): one assignment per Address, AddressList, Text, TextList or   *)
(* DateTime header, in source order, under the same name and with an equal *)
(* value, none for a ContentType header, and two headers of one name give  *)
(* two assignments.                                                        *)
C1_HeadersAreOrderedFilterMap ==
    hi >= 1 =>
        LET walked == SubSeq(message.headers, 1, hi - 1)
            kept == SelectSeq(walked, HeaderIsCopied)
        IN /\ Len(eml.headers) = Len(kept)
           /\ \A k \in 1..Len(kept) :
                 /\ eml.headers[k][1] = kept[k].name
                 /\ SameValue(kept[k].value, eml.headers[k][2])
           /\ \A k \in 1..Len(walked) :
                 ~HeaderIsCopied(walked[k]) => walked[k].value.kind = "ContentType"
           /\ pc \in {"copy_attachments", "put_on_imap"} => hi = Len(message.headers) + 1

(* copy_headers returned on three headers: two of one name around a        *)
(* ContentType header, which gave two assignments.                         *)
C1_Witness ==
    /\ pc = "copy_attachments"
    /\ Len(message.headers) = 3
    /\ message.headers[1].name = message.headers[3].name
    /\ message.headers[1].value.kind = "TextList"
    /\ message.headers[2].value.kind = "ContentType"
    /\ message.headers[3].value.kind = "AddressList"
    /\ Len(eml.headers) = 2
    /\ eml.headers[1][1] = eml.headers[2][1]

UnsupportedKinds == { "Group", "GroupList", "Empty" }

(* C2: in default reconstruction mode a Group, GroupList or Empty header   *)
(* at place p stops the run there: no header after it is walked or copied, *)
(* no attachment is copied, nothing is written to standard output and      *)
(* nothing is handed to the delivery collaborator.                         *)
C2_UnsupportedHeaderAborts ==
    NoQueryFlag(args) =>
        \A p \in 1..Len(message.headers) :
            message.headers[p].value.kind \in UnsupportedKinds =>
                /\ hi <= p
                /\ Len(eml.headers) < p
                /\ ai = 0
                /\ eml.attachments = <<>>
                /\ stdout = <<>>
                /\ stored = <<>>
                /\ ~network
                /\ pc \in {"cli", "clap_error", "main", "copy_headers", "panicked"}

(* The run aborted at a Group header in second place, with delivery fully  *)
(* requested and the first header already copied.                          *)
C2_Witness ==
    /\ pc = "panicked"
    /\ hi = 2
    /\ message.headers[2].value.kind = "Group"
    /\ err = PanicReason(HvGroup)
    /\ Len(eml.headers) = 1
    /\ args.put_on_imap # None
    /\ PortOf(args).ok
    /\ message.attachments # <<>>

(* Cutting a text at its line feeds: the lines before each line feed and   *)
(* what follows the last one.                                              *)
RECURSIVE SplitAtLineFeeds(_, _)
SplitAtLineFeeds(text, cur) ==
    IF text = <<>> THEN <<cur>>
    ELSE IF Head(text) = "\n" THEN <<cur>> \o SplitAtLineFeeds(Tail(text), <<>>)
    ELSE SplitAtLineFeeds(Tail(text), Append(cur, Head(text)))

(* The lines of an input text: its terminators are "\n" and "\r\n", the    *)
(* last line may have none.                                                *)
InputLines(text) ==
    LET cut == SplitAtLineFeeds(text, <<>>)
        n == Len(cut)
        whole == IF cut[n] = <<>> THEN SubSeq(cut, 1, n - 1) ELSE cut
    IN [k \in 1..Len(whole) |->
          LET l == whole[k] IN
          IF (k < n) /\ l # <<>> /\ l[Len(l)] = "\r"
          THEN SubSeq(l, 1, Len(l) - 1) ELSE l]

HardBreaksOf(text, out) ==
    LET ins == InputLines(text)
        cut == SplitAtLineFeeds(out, <<>>)
    IN /\ cut[Len(cut)] = <<>>
       /\ Len(cut) - 1 = Len(ins)
       /\ \A k \in 1..Len(ins) : cut[k] = ins[k] \o <<" ", " ">>
       /\ (text = <<>> => out = <<>>)

RenderedDocuments ==
    { stdout[k].value : k \in { j \in 1..Len(stdout) : stdout[j].kind = "html" } }
    \cup (IF eml.html_body = None THEN {} ELSE { eml.html_body[1] })

(* C9: what the renderer is given is each line of the body, in order,      *)
(* followed by two spaces and a line feed: as many lines as the body has,  *)
(* each ending in two spaces, the last one and empty ones too, the line    *)
(* content unchanged, and nothing for an empty body.                       *)
C9_PreMarkdownHardBreaks ==
    \A doc \in RenderedDocuments :
        HardBreaksOf(text_body(message), doc.markdown)

(* The preview of "a\na" was printed: "a  \na  \n" went to the renderer.   *)
C9_Witness ==
    /\ pc = "done"
    /\ args.html_preview
    /\ message.body_text = Some(<<"a", "\n", "a">>)
    /\ stdout = << [kind |-> "html",
                    value |-> [generator |-> "mutt-html-markdown/0.1",
                               markdown |-> <<"a", " ", " ", "\n", "a", " ", " ", "\n">>,
                               body_append |-> <<>>]] >>

(* Attachment parts by what the claims say of them.                        *)
PartIsCopied(part) == part.body.kind \in {"Binary", "Text"}

DispositionHeaders(part) ==
    { k \in 1..Len(part.headers) : part.headers[k].name = "Content-Disposition" }

ContentTypeHeaders(part) ==
    { k \in 1..Len(part.headers) : part.headers[k].name = "Content-Type" }

HasFilenameAttribute(h) ==
    /\ h.value.kind = "ContentType"
    /\ \E k \in 1..Len(h.value.attributes) : h.value.attributes[k][1] = "filename"

(* No content-disposition header, or one without a filename attribute.     *)
NoFilename(part) ==
    \A k \in DispositionHeaders(part) : ~HasFilenameAttribute(part.headers[k])

(* The attachment parts walked so far, and the place, among the            *)
(* assignments, of the one made for the k-th part.                         *)
WalkedParts == IF ai = 0 THEN <<>> ELSE SubSeq(message.attachments, 1, ai - 1)
AssignmentOf(k) == Len(SelectSeq(SubSeq(message.attachments, 1, k), PartIsCopied))

(* C3: absent optional metadata of an attachment part never aborts the run *)
(* and defaults to the empty string: the file name when the part has no    *)
(* content-disposition header or one without a filename attribute, the     *)
(* content type when the part has no content-type header.                  *)
C3_AbsentMetadataDefaultsToEmpty ==
    /\ pc = "panicked" => ai = 0
    /\ \A k \in 1..Len(WalkedParts) :
          PartIsCopied(WalkedParts[k]) =>
              /\ AssignmentOf(k) <= Len(eml.attachments)
              /\ NoFilename(WalkedParts[k]) =>
                     eml.attachments[AssignmentOf(k)].file_name = <<>>
              /\ ContentTypeHeaders(WalkedParts[k]) = {} =>
                     eml.attachments[AssignmentOf(k)].content_type = <<>>

(* `type` or `type/subtype` of a content-type header of the part, the      *)
(* empty string when it has none.                                          *)
IsContentTypeOf(part, ct) ==
    IF \A k \in ContentTypeHeaders(part) : part.headers[k].value.kind # "ContentType"
    THEN ct = <<>>
    ELSE \E k \in ContentTypeHeaders(part) :
            LET v == part.headers[k].value IN
            /\ v.kind = "ContentType"
            /\ ct = IF v.c_subtype = None THEN v.c_type
                    ELSE v.c_type \o <<"/">> \o v.c_subtype[1]

(* C4: the attachment assignments are, in source order, one per walked     *)
(* part with a binary or text payload, with the same payload and a content *)
(* type `type` or `type/subtype`; a part of another payload shape gives    *)
(* no assignment and no error.                                             *)
C4_AttachmentsCopiedInOrder ==
    /\ pc = "panicked" => ai = 0
    /\ LET kept == SelectSeq(WalkedParts, PartIsCopied) IN
       /\ Len(eml.attachments) = Len(kept)
       /\ \A k \in 1..Len(kept) :
             /\ eml.attachments[k].kind =
                    (IF kept[k].body.kind = "Binary" THEN "binary" ELSE "text")
             /\ eml.attachments[k].body = kept[k].body.data
             /\ IsContentTypeOf(kept[k], eml.attachments[k].content_type)
    /\ pc = "put_on_imap" => ai = Len(message.attachments) + 1

Supplied(a) ==
    { n \in {"put_on_imap", "server", "port", "user", "password"} : a[n] # None }

AllSupplied(a) == Cardinality(Supplied(a)) = 5

(* Some but not all delivery parameters, or a port that is no number.      *)
PartialDelivery(a) ==
    \/ Supplied(a) # {} /\ ~AllSupplied(a)
    \/ a.port # None /\ ~ParseU16(a.port[1]).ok

(* C5, as claimed (read for default reconstruction mode): with partial     *)
(* delivery parameters the run never gets to the end without a fatal       *)
(* configuration error, writes nothing and touches no network; delivery    *)
(* is attempted only when all parameters are supplied.                     *)
C5_PartialDeliveryIsFatal ==
    /\ (NoQueryFlag(args) /\ PartialDelivery(args)) =>
           /\ pc # "done"
           /\ stdout = <<>>
           /\ ~network
    /\ network => AllSupplied(args)

MissingImapRequirement(a) ==
    /\ a.put_on_imap # None
    /\ \E n \in {"server", "port", "user", "password"} : a[n] = None

(* C5, amended: a mailbox without one of server, port, user, password is   *)
(* rejected by the argument parser before anything runs; a mailbox with    *)
(* all of them and a port that is no 16-bit number ends default            *)
(* reconstruction at the delivery step in the configuration error, before  *)
(* any network activity and any output; without a mailbox the other        *)
(* parameters are ignored and raise no error; delivery is attempted only   *)
(* with all five supplied and a valid port.                                *)
C5_ConfigErrorOnlyWithMailbox ==
    /\ MissingImapRequirement(args) =>
           /\ pc \in {"cli", "clap_error"}
           /\ stdout = <<>> /\ ~network /\ stored = <<>>
    /\ (NoQueryFlag(args) /\ args.put_on_imap # None /\ ~PortOf(args).ok) =>
           /\ pc \notin {"add_pixel", "generate_html", "write", "done"}
           /\ stdout = <<>> /\ ~network /\ stored = <<>>
    /\ (pc = "panicked" /\ err = "Missing arguments for put-on-imap") =>
           /\ AllSupplied(args) /\ ~PortOf(args).ok
           /\ stdout = <<>> /\ ~network /\ stored = <<>>
    /\ args.put_on_imap = None =>
           /\ ~network /\ stored = <<>>
           /\ err # "Missing arguments for put-on-imap"
           /\ pc = "clap_error" => (args.add_pixel # None /\ ~args.generate_html)
    /\ network => (AllSupplied(args) /\ PortOf(args).ok)

(* The delivery step raised the configuration error: every parameter       *)
(* supplied, the port no number.                                           *)
C5_Witness ==
    /\ pc = "panicked"
    /\ err = "Missing arguments for put-on-imap"
    /\ args.port = Some(<<"x">>)
    /\ Len(eml.headers) = MaxHeaders

MissingInputErrors ==
    { "unwrap on None: body_text", "unwrap on None: address",
      "unwrap on None: message_id" }

(* C6: in default reconstruction mode an abort for a missing required      *)
(* input (text body, address string, identifier for the pixel) leaves      *)
(* nothing written to standard output and nothing handed to delivery.      *)
C6_MissingInputHasNoEffect ==
    (NoQueryFlag(args) /\ pc = "panicked" /\ err \in MissingInputErrors) =>
        /\ stdout = <<>>
        /\ stored = <<>>
        /\ ~network

(* C7, as claimed: the message handed to delivery is the message emitted   *)
(* to standard output (same text body, headers, attachments, HTML body     *)
(* with the tracking pixel).                                               *)
C7_DeliveredIsEmitted ==
    (pc = "done" /\ NoQueryFlag(args) /\ stored # <<>>) =>
        /\ Len(stdout) = 1
        /\ stored[1].message = stdout[1].value

(* C7, amended: the hand-off comes after header and attachment copying and *)
(* before the tracking pixel is derived and before anything is emitted;    *)
(* the message handed over has the text body, headers and attachments of   *)
(* the emitted one and, with generate-html, the HTML body rendered with    *)
(* nothing appended, so it equals the emitted HTML body only when no       *)
(* tracking pixel is requested.                                            *)
C7_DeliveredBeforePixel ==
    /\ pc \in {"cli", "main", "copy_headers", "copy_attachments", "put_on_imap"} =>
           stored = <<>> /\ append = None /\ stdout = <<>>
    /\ stored # <<>> =>
           /\ Len(stored) = 1
           /\ hi = Len(message.headers) + 1
           /\ ai = Len(message.attachments) + 1
           /\ pc = "add_pixel" => (append = None /\ stdout = <<>>)
           /\ stored[1].message.text_body = eml.text_body
           /\ stored[1].message.headers = eml.headers
           /\ stored[1].message.attachments = eml.attachments
           /\ stored[1].message.html_body # None <=> args.generate_html
           /\ args.generate_html =>
                 /\ stored[1].message.html_body[1].markdown
                       = pre_markdown(text_body(message))
                 /\ stored[1].message.html_body[1].body_append = <<>>
           /\ pc = "done" =>
                 /\ stdout = << [kind |-> "message", value |-> eml] >>
                 /\ (stored[1].message = eml) <=> (args.add_pixel = None)
                 /\ args.add_pixel # None =>
                       eml.html_body[1].body_append = append[1]

(* A run that delivered and emitted with a tracking pixel: the two HTML    *)
(* bodies differ.                                                          *)
C7_Witness ==
    /\ pc = "done"
    /\ stored # <<>>
    /\ args.add_pixel # None
    /\ stdout[1].value.html_body # stored[1].message.html_body
    /\ stdout[1].value.headers = stored[1].message.headers
    /\ Len(stored[1].message.headers) = MaxHeaders

(* The URL-safe base64 alphabet. *)
URL_SAFE == Upper \o Lower \o Digits \o <<"-", "_">>

UrlUnsafe == { "+", "/", "=" }

DiffersInOneCharacter(x, y) ==
    /\ Len(x) = Len(y)
    /\ Cardinality({ k \in 1..Len(x) : x[k] # y[k] }) = 1

(* C8: the fragment's src is base_url + "/image/" + enc(id) + ".gif" with  *)
(* enc the URL-safe base64 of the identifier's bytes without padding: no   *)
(* '+', '/' or '=' in the encoded segment, and identifiers that differ in  *)
(* one character give different segments.                                  *)
C8_PixelUrlIsUrlSafeBase64 ==
    append # None =>
        LET id == message.message_id[1]
            enc == EncodeNoPad(URL_SAFE, as_bytes(id))
            prefix == <<ImgOpen>> \o args.add_pixel[1] \o <<"/","i","m","a","g","e","/">>
            segment == SubSeq(append[1], Len(prefix) + 1, Len(prefix) + Len(enc))
        IN /\ append[1] = prefix \o enc \o <<".","g","i","f">> \o <<ImgClose>>
           /\ \A k \in 1..Len(segment) : segment[k] \notin UrlUnsafe
           /\ \A other \in Ids :
                 DiffersInOneCharacter(id, other) =>
                     get_pixel_element(args.add_pixel[1],
                         [message EXCEPT !.message_id = Some(other)]) # append[1]

AnyQueryFlag(a) == ~NoQueryFlag(a)

(* The value the first set query flag asks for.                            *)
QueryValue(a, m) ==
    IF a.get_message_id
    THEN [kind |-> "text",
          value |-> IF m.message_id = None THEN <<>> ELSE m.message_id[1]]
    ELSE IF a.get_subject
    THEN [kind |-> "text",
          value |-> IF m.subject = None THEN <<>> ELSE m.subject[1]]
    ELSE IF a.get_from_email
    THEN [kind |-> "text",
          value |-> IF m.from.kind = "Address" /\ m.from.addr.address # None
                    THEN m.from.addr.address[1] ELSE <<>>]
    ELSE [kind |-> "html",
          value |-> [generator |-> "mutt-html-markdown/0.1",
                     markdown |-> pre_markdown(m.body_text[1]),
                     body_append |-> <<>>]]

NothingReconstructed ==
    /\ eml = NewBuilder
    /\ hi = 0 /\ ai = 0
    /\ append = None
    /\ stored = <<>> /\ ~network
    /\ \A k \in 1..Len(stdout) : stdout[k].kind # "message"

(* C10, as claimed (read for command lines the argument parser accepts):   *)
(* with a query flag set the run ends having printed exactly one value,    *)
(* the one of the first set flag, and nothing is reconstructed.            *)
C10_QueryPrintsExactlyOne ==
    (AnyQueryFlag(args) /\ ClapAccepts(args)) =>
        /\ NothingReconstructed
        /\ pc \in {"cli", "main", "done"}
        /\ pc = "done" => stdout = << QueryValue(args, message) >>

PreviewWithoutBody(a, m) ==
    /\ ~a.get_message_id /\ ~a.get_subject /\ ~a.get_from_email
    /\ a.html_preview
    /\ m.body_text = None

(* C10, amended: with a query flag set, on a command line the argument     *)
(* parser accepts, nothing is copied, delivered or serialized and the run  *)
(* ends having printed exactly one value, the one of the first set flag in *)
(* the order identifier, subject, sender address, HTML preview; except     *)
(* that the HTML preview of a message without text body aborts with        *)
(* nothing printed.  A command line the parser rejects prints nothing.     *)
C10_QueryShortCircuits ==
    AnyQueryFlag(args) =>
        /\ NothingReconstructed
        /\ Len(stdout) <= 1
        /\ pc \in {"cli", "clap_error", "main", "done", "panicked"}
        /\ pc = "clap_error" <=> (~ClapAccepts(args) /\ pc # "cli")
        /\ pc = "panicked" <=>
              (ClapAccepts(args) /\ PreviewWithoutBody(args, message)
               /\ pc \notin {"cli", "main"})
        /\ pc = "done" => stdout = << QueryValue(args, message) >>
        /\ pc # "done" => stdout = <<>>

(* Subject printed with subject and preview flags set and delivery fully   *)
(* requested.                                                              *)
C10_Witness ==
    /\ pc = "done"
    /\ ~args.get_message_id
    /\ args.get_subject
    /\ args.html_preview
    /\ args.generate_html
    /\ AllSupplied(args) /\ PortOf(args).ok
    /\ stdout = << [kind |-> "text", value |-> TextHi] >>

====
